---- MODULE Spec2Model ----
(***************************************************************************)
(* Model of C/misc/randomJPG/generate_jpg.c: a command-line generator of   *)
(* block-coloured JPEG images.  One run of main() is a state machine whose *)
(* steps are the functions main() calls, in program order.  Strings are    *)
(* tuples of one-character strings, so that sscanf/atoi/strftime can be    *)
(* modelled by what they do to the characters.                             *)
(***************************************************************************)
EXTENDS Integers, Sequences, FiniteSets, TLC

(***************************************************************************)
(* Bounds of the model.                                                    *)
(***************************************************************************)
\* largest num_images argument drawn
MaxImages == 2
\* largest number of arguments after output_path (date and colours)
MaxTail == 2

(***************************************************************************)
(* Characters and the C library's scanning conversions.                    *)
(***************************************************************************)
DecDigits == <<"0", "1", "2", "3", "4", "5", "6", "7", "8", "9">>

HexDigits == <<"0", "1", "2", "3", "4", "5", "6", "7", "8", "9",
               "A", "B", "C", "D", "E", "F">>

HexLower == <<"a", "b", "c", "d", "e", "f">>

IsSpace(c) == c = " "

IsDigit(c) == \E k \in 1..10 : DecDigits[k] = c

IsXDigit(c) == (\E k \in 1..16 : HexDigits[k] = c) \/ (\E k \in 1..6 : HexLower[k] = c)

\* value of a digit character in the given base (c is a digit of that base)
DigitValue(c) ==
    IF \E k \in 1..16 : HexDigits[k] = c
    THEN (CHOOSE k \in 1..16 : HexDigits[k] = c) - 1
    ELSE (CHOOSE k \in 1..6 : HexLower[k] = c) + 9

IsBaseDigit(c, base) == IF base = 10 THEN IsDigit(c) ELSE IsXDigit(c)

\* first position >= pos of s that does not hold white space
RECURSIVE SkipSpace(_, _)
SkipSpace(s, pos) ==
    IF pos <= Len(s) /\ IsSpace(s[pos]) THEN SkipSpace(s, pos + 1) ELSE pos

\* digits of the base from pos on, at most width of them (width < 0: no
\* limit): the accumulated value and the position after the last digit
RECURSIVE ScanDigits(_, _, _, _, _, _)
ScanDigits(s, pos, width, base, acc, n) ==
    IF pos <= Len(s) /\ width /= 0 /\ IsBaseDigit(s[pos], base)
    THEN ScanDigits(s, pos + 1, width - 1, base, acc * base + DigitValue(s[pos]), n + 1)
    ELSE [val |-> acc, next |-> pos, ndigits |-> n]

\* the result of one numeric conversion, from its digits and its sign
ScanResult(d, negative) ==
    [ok   |-> d.ndigits > 0,
     val  |-> IF negative THEN 0 - d.val ELSE d.val,
     next |-> d.next]

\* an optional sign, which counts against the width, then digits
ScanSigned(s, p0, width, base) ==
    IF p0 <= Len(s) /\ width /= 0 /\ s[p0] \in {"+", "-"}
    THEN ScanResult(ScanDigits(s, p0 + 1, width - 1, base, 0, 0), s[p0] = "-")
    ELSE ScanResult(ScanDigits(s, p0, width, base, 0, 0), FALSE)

\* One numeric conversion of scanf (%<width>d, %<width>x): white space is
\* skipped, then a signed number is read.  The tokens of this model hold no
\* 'x', so the 0x prefix of %x never shows.
ScanNumber(s, pos, width, base) == ScanSigned(s, SkipSpace(s, pos), width, base)

\* The conversions convs of a scanf format applied to s from pos on: the
\* values assigned, in order; scanning stops at the first conversion that
\* fails.  sscanf returns their number (or EOF when there is none and the
\* input ran out; the callers only compare the result with 3).
RECURSIVE ScanConversions(_, _, _, _)
RECURSIVE ScanStep(_, _, _, _)
ScanConversions(s, pos, convs, vals) ==
    IF convs = <<>> THEN vals
    ELSE ScanStep(s, convs, vals,
                  ScanNumber(s, pos, Head(convs).width, Head(convs).base))

ScanStep(s, convs, vals, r) ==
    IF r.ok THEN ScanConversions(s, r.next, Tail(convs), Append(vals, r.val))
    ELSE vals

\* atoi(3): the leading decimal number of s, 0 when there is none
atoi(s) == LET r == ScanNumber(s, 1, -1, 10) IN IF r.ok THEN r.val ELSE 0

\* strcmp(a, b) == 0
StrEq(a, b) == a = b

\* printf-style %d of a number, as characters
RECURSIVE NatToStr(_)
NatToStr(n) ==
    IF n < 10 THEN <<DecDigits[n + 1]>>
    ELSE NatToStr(n \div 10) \o <<DecDigits[(n % 10) + 1]>>

IntToStr(n) == IF n < 0 THEN <<"-">> \o NatToStr(0 - n) ELSE NatToStr(n)

\* a number zero-padded to at least w characters (strftime %m, %d, %H, ...)
RECURSIVE ZeroPad(_, _)
ZeroPad(s, w) == IF Len(s) >= w THEN s ELSE ZeroPad(<<"0">> \o s, w)

\* strftime(..., "%Y:%m:%d %H:%M:%S", t)
FormatDatetime(t) ==
    IntToStr(t.tm_year + 1900) \o <<":">> \o ZeroPad(IntToStr(t.tm_mon + 1), 2)
      \o <<":">> \o ZeroPad(IntToStr(t.tm_mday), 2) \o <<" ">>
      \o ZeroPad(IntToStr(t.tm_hour), 2) \o <<":">> \o ZeroPad(IntToStr(t.tm_min), 2)
      \o <<":">> \o ZeroPad(IntToStr(t.tm_sec), 2)

\* strftime(..., "generated_images_%Y%m%d_%H%M%S", t)
FormatFolder(t) ==
    <<"generated_images_">> \o IntToStr(t.tm_year + 1900)
      \o ZeroPad(IntToStr(t.tm_mon + 1), 2) \o ZeroPad(IntToStr(t.tm_mday), 2)
      \o <<"_">> \o ZeroPad(IntToStr(t.tm_hour), 2) \o ZeroPad(IntToStr(t.tm_min), 2)
      \o ZeroPad(IntToStr(t.tm_sec), 2)

(***************************************************************************)
(* validate_and_parse_custom_date                                          *)
(***************************************************************************)
NoTime == [tm_year |-> 0, tm_mon |-> 0, tm_mday |-> 0,
           tm_hour |-> 0, tm_min |-> 0, tm_sec |-> 0]

\* faulty variant: the month is tested as if it were 0-based
CheckDate_month0(year, month, day) ==
    IF year < 1900 \/ year > 2100 \/ month < 0 \/ month > 11 \/ day < 1 \/ day > 31
    THEN [ok |-> 0, tm |-> NoTime]
    ELSE [ok |-> 1,
          tm |-> [tm_year |-> year - 1900, tm_mon |-> month - 1, tm_mday |-> day,
                  tm_hour |-> 12, tm_min |-> 0, tm_sec |-> 0]]

\* "Basic validation" and "Set up the tm structure"
CheckDate(year, month, day) ==
    IF year < 1900 \/ year > 2100 \/ month < 1 \/ month > 12 \/ day < 1 \/ day > 31
    THEN [ok |-> 0, tm |-> NoTime]
    ELSE [ok |-> 1,
          tm |-> [tm_year |-> year - 1900, tm_mon |-> month - 1, tm_mday |-> day,
                  tm_hour |-> 12, tm_min |-> 0, tm_sec |-> 0]]

\* v holds the values of sscanf(date_str, "%4d%2d%2d", &year, &month, &day)
ParsedDate(v) ==
    IF Len(v) /= 3 THEN [ok |-> 0, tm |-> NoTime] ELSE CheckDate(v[1], v[2], v[3])

\* the value returned (ok) and the struct tm filled in on success
validate_and_parse_custom_date(date_str) ==
    IF Len(date_str) /= 8 THEN [ok |-> 0, tm |-> NoTime]
    ELSE IF \E k \in 1..8 : ~IsDigit(date_str[k]) THEN [ok |-> 0, tm |-> NoTime]
    ELSE ParsedDate(ScanConversions(date_str, 1,
                      << [width |-> 4, base |-> 10], [width |-> 2, base |-> 10],
                         [width |-> 2, base |-> 10] >>, <<>>))

(***************************************************************************)
(* parse_single_color                                                      *)
(***************************************************************************)
\* the values of sscanf(color_str, "#%02x%02x%02x", &r, &g, &b)
ScanColor(color_str) ==
    IF Len(color_str) = 0 \/ color_str[1] /= "#" THEN <<>>
    ELSE ScanConversions(color_str, 2,
           << [width |-> 2, base |-> 16], [width |-> 2, base |-> 16],
              [width |-> 2, base |-> 16] >>, <<>>)

\* *color = (RGB){ r, g, b }: the members are unsigned char, so the values
\* are reduced modulo 256; ok = 0 is the fatal "Invalid color format" exit
MakeColor(v) ==
    IF Len(v) /= 3 THEN [ok |-> 0, color |-> <<0, 0, 0>>]
    ELSE [ok |-> 1, color |-> <<v[1] % 256, v[2] % 256, v[3] % 256>>]

parse_single_color(color_str) == MakeColor(ScanColor(color_str))

(***************************************************************************)
(* fill_image_with_colors                                                  *)
(***************************************************************************)
\* an uninitialised byte of a malloc'ed buffer
Uninit == -1

\* malloc(size * size * 3): the bytes and, for the analysis, the log of the
\* byte indexes of the pixels written so far
NewBuffer(size) ==
    [mem |-> [b \in 0..(size * size * 3 - 1) |-> Uninit], log |-> <<>>]

\* image_buffer[index] = color.r; [index + 1] = color.g; [index + 2] = color.b
WritePixel(buf, index, color) ==
    [mem |-> [buf.mem EXCEPT ![index] = color[1], ![index + 1] = color[2],
                             ![index + 2] = color[3]],
     log |-> Append(buf.log, index)]

\* faulty variant: the inner loop stops one column short of the block
RECURSIVE FillJ_short(_, _, _, _, _, _, _, _)
FillJ_short(buf, size, block_size, color, y, x, i, j) ==
    IF j < block_size - 1
    THEN FillJ_short(WritePixel(buf, ((y + i) * size + (x + j)) * 3, color),
                     size, block_size, color, y, x, i, j + 1)
    ELSE buf

\* for (j = 0; j < block_size; ++j)
RECURSIVE FillJ(_, _, _, _, _, _, _, _)
FillJ(buf, size, block_size, color, y, x, i, j) ==
    IF j < block_size
    THEN FillJ(WritePixel(buf, ((y + i) * size + (x + j)) * 3, color),
               size, block_size, color, y, x, i, j + 1)
    ELSE buf

\* for (i = 0; i < block_size; ++i)
RECURSIVE FillI(_, _, _, _, _, _, _)
FillI(buf, size, block_size, color, y, x, i) ==
    IF i < block_size
    THEN FillI(FillJ(buf, size, block_size, color, y, x, i, 0),
               size, block_size, color, y, x, i + 1)
    ELSE buf

\* for (x = 0; x < size; x += block_size); k counts the calls of rand()
RECURSIVE FillX(_, _, _, _, _, _, _, _)
FillX(buf, size, block_size, color_list, rnd, y, x, k) ==
    IF x < size
    THEN FillX(FillI(buf, size, block_size,
                     color_list[(rnd[k + 1] % Len(color_list)) + 1], y, x, 0),
               size, block_size, color_list, rnd, y, x + block_size, k + 1)
    ELSE [buf |-> buf, k |-> k]

\* for (y = 0; y < size; y += block_size)
RECURSIVE FillY(_, _, _, _, _, _, _)
FillY(buf, size, block_size, color_list, rnd, y, k) ==
    IF y < size
    THEN LET row == FillX(buf, size, block_size, color_list, rnd, y, 0, k)
         IN  FillY(row.buf, size, block_size, color_list, rnd, y + block_size, row.k)
    ELSE buf

\* rnd is the stream of values rand() returns
fill_image_with_colors(image_buffer, size, color_list, block_size, rnd) ==
    FillY(image_buffer, size, block_size, color_list, rnd, 0, 0)

\* the number of rand() calls of one fill with a positive block size
NumBlocks(size, block_size) ==
    LET n == IF size <= 0 THEN 0 ELSE (size + block_size - 1) \div block_size
    IN  n * n

\* the % operator of C (quotient truncated towards zero), b /= 0
CRem(a, b) ==
    LET abs(v) == IF v < 0 THEN 0 - v ELSE v
        m == abs(a) % abs(b)
    IN  IF a < 0 THEN 0 - m ELSE m

(***************************************************************************)
(* Command lines.  argv[k] is C's argv[k] for k >= 1; argc = Len(argv) + 1.*)
(***************************************************************************)
HelpShort == <<"-", "h">>
HelpLong == <<"-", "-", "h", "e", "l", "p">>

CountTokens == {IntToStr(n) : n \in (-1)..MaxImages} \cup {HelpShort, HelpLong}

SizeTokens == {<<"4">>, <<"3">>, <<"-", "4">>}

BlockTokens == {<<"2">>, <<"4">>, <<"0">>, <<"-", "2">>}

QualityTokens == {<<"9", "0">>}

PathTokens == {<<"o", "u", "t">>}

DateTokens ==
    { <<"2", "0", "2", "4", "0", "1", "0", "1">>,
      <<"2", "0", "2", "4", "0", "1", "1">>,
      <<"2", "0", "2", "4", "1", "3", "0", "1">>,
      <<"2", "0", "2", "4", "0", "2", "3", "1">>,
      <<"2", "0", "2", "4", "0", "1", "0", "0">>,
      <<"2", "0", "2", "4", "0", "1", "3", "2">>,
      <<"2", "0", "2", "4", "0", "0", "1", "5">>,
      <<"1", "8", "9", "9", "1", "2", "3", "1">>,
      <<"1", "9", "0", "0", "1", "2", "3", "1">>,
      <<"2", "1", "0", "0", "0", "9", "0", "9">>,
      <<"2", "1", "0", "1", "0", "1", "0", "1">>,
      <<"2", "0", "2", "4", "0", "1", "0", "a">> }

ColorTokens ==
    { <<"#", "0", "0", "0", "0", "0", "0">>,
      <<"#", "1", "A", "2", "B", "3", "C">>,
      <<"#", "f", "f", "0", "0", "8", "0">>,
      <<"#", "1", "2", "3", "4", "5">>,
      <<"#", "F", "F", "0", "0", "0", "0", "z">>,
      <<"#", "1", "2", "3">>,
      <<"1", "A", "2", "B", "3", "C">> }

\* the arguments after output_path: the first may be a date or a colour
Tails ==
    UNION { { t \in [1..n -> DateTokens \cup ColorTokens] :
                \A k \in 2..n : t[k] \in ColorTokens } : n \in 0..MaxTail }

\* runs that give the five positional values, and the bare help run
Argvs ==
    { <<a1, a2, a3, a4, a5>> \o t :
        a1 \in CountTokens, a2 \in SizeTokens, a3 \in BlockTokens,
        a4 \in QualityTokens, a5 \in PathTokens, t \in Tails }
    \cup { <<HelpShort>>, <<HelpLong>> }

\* the local times the clock shows, in order
NowTimes ==
    << [tm_year |-> 126, tm_mon |-> 10, tm_mday |-> 1,
        tm_hour |-> 9, tm_min |-> 5, tm_sec |-> 59],
       [tm_year |-> 126, tm_mon |-> 10, tm_mday |-> 1,
        tm_hour |-> 9, tm_min |-> 6, tm_sec |-> 0] >>

EXIT_SUCCESS == 0
EXIT_FAILURE == 1

\* the status a shell reports for a process killed by SIGFPE
SIGFPE_STATUS == 136

NULL == <<>>

(***************************************************************************)
(* State of one run.                                                       *)
(***************************************************************************)
VARIABLES
    argv,             \* the command line
    clock,            \* index into NowTimes of the current local time
    pc,               \* the function main() is about to call
    num_images, size, block_size, quality, output_path,
    custom_date, has_custom_date,
    color_list, num_colors,
    folder,           \* name of the output folder
    datetime_str,     \* the timestamp handed to exiftool
    i,                \* loop counter of main()
    image_buffer,     \* the live pixel buffer, or NULL
    fs_folders,       \* folders that exist on disk
    files,            \* paths of the images written completely
    partial,          \* paths opened for writing whose encoding failed
    allocs,           \* number of pixel buffers allocated so far
    tag_calls,        \* the system() calls made: <<folder, datetime_str>>
    exit_status,      \* <<>> while running, <<status>> once exited
    err,              \* the message on stderr, <<>> when none
    usage,            \* print_usage was called
    trace             \* the functions called so far, in order

vars == <<argv, clock, pc, num_images, size, block_size, quality, output_path,
          custom_date, has_custom_date, color_list, num_colors, folder,
          datetime_str, i, image_buffer, fs_folders, files, partial, allocs,
          tag_calls, exit_status, err, usage, trace>>

argc == Len(argv) + 1

args == <<num_images, size, block_size, quality, output_path, custom_date,
          has_custom_date>>

palette == <<color_list, num_colors>>

disk == <<fs_folders, files, partial>>

Init ==
    /\ argv \in Argvs
    /\ clock = 1
    /\ pc = "handle_help_option"
    /\ num_images = 0 /\ size = 0 /\ block_size = 0 /\ quality = 0
    /\ output_path = NULL /\ custom_date = NULL /\ has_custom_date = 0
    /\ color_list = NULL /\ num_colors = 0
    /\ folder = NULL /\ datetime_str = NULL
    /\ i = 0
    /\ image_buffer = NULL
    /\ fs_folders = {} /\ files = {} /\ partial = {}
    /\ allocs = 0
    /\ tag_calls = <<>>
    /\ exit_status = <<>>
    /\ err = <<>>
    /\ usage = FALSE
    /\ trace = <<>>

\* exit(status) or return status from main()
Exit(status, message) ==
    /\ pc' = "exited"
    /\ exit_status' = <<status>>
    /\ err' = message

Continue(next) ==
    /\ pc' = next
    /\ UNCHANGED <<exit_status, err>>

\* the clock advances; only create_output_folder and the EXIF time read it
Tick ==
    /\ pc \in {"create_output_folder", "resolve_datetime"}
    /\ clock < Len(NowTimes)
    /\ clock' = clock + 1
    /\ UNCHANGED <<argv, pc, args, palette, folder, datetime_str, i,
                   image_buffer, disk, allocs, tag_calls, exit_status, err,
                   usage, trace>>

(***************************************************************************)
(* main(), line by line                                                    *)
(***************************************************************************)
\* faulty variant: only the long option is recognised
handle_help_option_long_only ==
    IF argc > 1 /\ StrEq(argv[1], HelpLong) THEN 1 ELSE 0

\* handle_help_option: 1 when argv[1] is --help or -h
handle_help_option ==
    IF argc > 1 /\ (StrEq(argv[1], HelpLong) \/ StrEq(argv[1], HelpShort))
    THEN 1 ELSE 0

HandleHelpOption ==
    /\ pc = "handle_help_option"
    /\ trace' = Append(trace, "handle_help_option")
    /\ IF handle_help_option = 1
       THEN /\ usage' = TRUE
            /\ Exit(EXIT_SUCCESS, <<>>)
       ELSE /\ usage' = usage
            /\ Continue("parse_arguments")
    /\ UNCHANGED <<argv, clock, args, palette, folder, datetime_str, i,
                   image_buffer, disk, allocs, tag_calls>>

ParseArguments ==
    /\ pc = "parse_arguments"
    /\ trace' = Append(trace, "parse_arguments")
    /\ num_images' = IF argc > 1 THEN atoi(argv[1]) ELSE 1
    /\ size' = IF argc > 2 THEN atoi(argv[2]) ELSE 1000
    /\ block_size' = IF argc > 3 THEN atoi(argv[3]) ELSE 25
    /\ quality' = IF argc > 4 THEN atoi(argv[4]) ELSE 100
    /\ output_path' = IF argc > 5 THEN argv[5]
                      ELSE <<"o", "u", "t", "p", "u", "t", ".", "p", "n", "g">>
    /\ IF argc > 6 /\ Len(argv[6]) = 8
          /\ validate_and_parse_custom_date(argv[6]).ok = 1
       THEN custom_date' = argv[6] /\ has_custom_date' = 1
       ELSE custom_date' = NULL /\ has_custom_date' = 0
    /\ Continue("parse_colors")
    /\ UNCHANGED <<argv, clock, palette, folder, datetime_str, i, image_buffer,
                   disk, allocs, tag_calls, usage>>

\* for (i = 0; i < num_colors; ++i) parse_single_color(tokens[i], ...): the
\* colours parsed, or the first token that parse_single_color exits on
RECURSIVE ParseColorLoop(_, _, _)
RECURSIVE ParseColorStep(_, _, _, _)
ParseColorLoop(tokens, k, acc) ==
    IF k > Len(tokens) THEN [ok |-> 1, colors |-> acc, bad |-> NULL]
    ELSE ParseColorStep(tokens, k, acc, parse_single_color(tokens[k]))

ParseColorStep(tokens, k, acc, c) ==
    IF c.ok = 0 THEN [ok |-> 0, colors |-> acc, bad |-> tokens[k]]
    ELSE ParseColorLoop(tokens, k + 1, Append(acc, c.color))

default_colors == << <<"#", "0", "0", "0", "0", "0", "0">>,
                     <<"#", "F", "F", "F", "F", "F", "F">> >>

\* color_list is the array being filled, empty when the loop starts
parse_default_colors == ParseColorLoop(default_colors, 1, color_list)

\* faulty variant: the first colour token is skipped
parse_colors_skip_first ==
    LET color_start_index == IF has_custom_date /= 0 THEN 7 ELSE 6
    IN  IF argc > color_start_index
        THEN ParseColorLoop(SubSeq(argv, color_start_index + 1, argc - 1), 1, color_list)
        ELSE parse_default_colors

parse_colors ==
    LET color_start_index == IF has_custom_date /= 0 THEN 7 ELSE 6
    IN  IF argc > color_start_index
        THEN ParseColorLoop(SubSeq(argv, color_start_index, argc - 1), 1, color_list)
        ELSE parse_default_colors

ParseColors ==
    /\ pc = "parse_colors"
    /\ trace' = Append(trace, "parse_colors")
    /\ \/ \* allocate_color_list: malloc fails
          /\ Exit(EXIT_FAILURE, <<"Error allocating memory">>)
          /\ UNCHANGED palette
       \/ LET r == parse_colors
          IN  IF r.ok = 0
              THEN /\ Exit(EXIT_FAILURE, <<"Invalid color format", r.bad>>)
                   /\ UNCHANGED palette
              ELSE /\ color_list' = r.colors
                   /\ num_colors' = Len(r.colors)
                   /\ Continue("create_output_folder")
    /\ UNCHANGED <<argv, clock, args, folder, datetime_str, i, image_buffer,
                   disk, allocs, tag_calls, usage>>

CreateOutputFolder ==
    /\ pc = "create_output_folder"
    /\ trace' = Append(trace, "create_output_folder")
    /\ folder' = FormatFolder(NowTimes[clock])
    /\ Continue("resolve_datetime")
    /\ UNCHANGED <<argv, clock, args, palette, datetime_str, i, image_buffer,
                   disk, allocs, tag_calls, usage>>

\* faulty variant: the loop runs one image too many
LoopNext_extra(v) == IF v <= num_images + 1 THEN "generate_bloated_jpeg"
                     ELSE "add_exif_datetime_batch"

\* faulty variant: the loop ends one image early
LoopNext_early(v) == IF v < num_images THEN "generate_bloated_jpeg"
                     ELSE "add_exif_datetime_batch"

\* the for statement of main(): the next call after the loop variable is v
LoopNext(v) == IF v <= num_images THEN "generate_bloated_jpeg"
               ELSE "add_exif_datetime_batch"

\* main(), "Get datetime for EXIF data", and the loop's i = 1
ResolveDatetime ==
    /\ pc = "resolve_datetime"
    /\ trace' = Append(trace, "resolve_datetime")
    /\ IF has_custom_date /= 0
       THEN LET v == validate_and_parse_custom_date(custom_date)
            IN  IF v.ok = 0
                THEN /\ Exit(EXIT_FAILURE, <<"Invalid custom date format", custom_date>>)
                     /\ UNCHANGED <<datetime_str, i>>
                ELSE /\ datetime_str' = FormatDatetime(v.tm)
                     /\ i' = 1
                     /\ Continue(LoopNext(1))
       ELSE /\ datetime_str' = FormatDatetime(NowTimes[clock])
            /\ i' = 1
            /\ Continue(LoopNext(1))
    /\ UNCHANGED <<argv, clock, args, palette, folder, image_buffer, disk,
                   allocs, tag_calls, usage>>

(***************************************************************************)
(* generate_bloated_jpeg, one step per call it makes                       *)
(***************************************************************************)
\* if (size % block_size != 0) exit.  With block_size = 0 the remainder is
\* undefined: the process may trap, or the test may come out either way.
CheckDivisible ==
    /\ pc = "generate_bloated_jpeg"
    /\ trace' = Append(trace, "generate_bloated_jpeg")
    /\ \/ /\ block_size /= 0
          /\ IF CRem(size, block_size) /= 0
             THEN Exit(EXIT_FAILURE, <<"Size must be divisible by block_size">>)
             ELSE Continue("create_folder_if_not_exists")
       \/ /\ block_size = 0
          /\ \/ Exit(SIGFPE_STATUS, <<>>)
             \/ Exit(EXIT_FAILURE, <<"Size must be divisible by block_size">>)
             \/ Continue("create_folder_if_not_exists")
    /\ UNCHANGED <<argv, clock, args, palette, folder, datetime_str, i,
                   image_buffer, disk, allocs, tag_calls, usage>>

\* stat() then mkdir(); mkdir may fail
CreateFolderIfNotExists ==
    /\ pc = "create_folder_if_not_exists"
    /\ trace' = Append(trace, "create_folder_if_not_exists")
    /\ \/ /\ folder \in fs_folders
          /\ Continue("allocate_image_buffer")
          /\ UNCHANGED fs_folders
       \/ /\ folder \notin fs_folders
          /\ fs_folders' = fs_folders \cup {folder}
          /\ Continue("allocate_image_buffer")
       \/ /\ folder \notin fs_folders
          /\ Exit(EXIT_FAILURE, <<"Error creating directory">>)
          /\ UNCHANGED fs_folders
    /\ UNCHANGED <<argv, clock, args, palette, folder, datetime_str, i,
                   image_buffer, files, partial, allocs, tag_calls, usage>>

\* snprintf(..., "%s/bloated_image_%d.jpg", folder, image_index)
generate_image_filename(dir, image_index) ==
    dir \o <<"/bloated_image_">> \o IntToStr(image_index) \o <<".jpg">>

AllocateImageBuffer ==
    /\ pc = "allocate_image_buffer"
    /\ trace' = Append(trace, "allocate_image_buffer")
    /\ \/ /\ image_buffer' = NewBuffer(size)
          /\ allocs' = allocs + 1
          /\ Continue("fill_image_with_colors")
       \/ /\ Exit(EXIT_FAILURE, <<"Error allocating memory">>)
          /\ UNCHANGED <<image_buffer, allocs>>
    /\ UNCHANGED <<argv, clock, args, palette, folder, datetime_str, i, disk,
                   tag_calls, usage>>

\* With size > 0 and block_size <= 0 the loops of fill_image_with_colors
\* never reach size: the call does not return.
FillImageWithColors ==
    /\ pc = "fill_image_with_colors"
    /\ trace' = Append(trace, "fill_image_with_colors")
    /\ \/ /\ size <= 0 \/ block_size > 0
          /\ \E rnd \in [1..NumBlocks(size, block_size) -> 0..(num_colors - 1)] :
               image_buffer' = fill_image_with_colors(image_buffer, size,
                                                      color_list, block_size, rnd)
          /\ Continue("save_image_as_jpeg")
       \/ /\ size > 0 /\ block_size <= 0
          /\ Continue("hung")
          /\ UNCHANGED image_buffer
    /\ UNCHANGED <<argv, clock, args, palette, folder, datetime_str, i, disk,
                   allocs, tag_calls, usage>>

\* fopen, handle_error, the libjpeg calls, free.  libjpeg's standard error
\* manager ends the process with exit(EXIT_FAILURE); an empty image is one
\* of its errors.
SaveImageAsJpeg ==
    /\ pc = "save_image_as_jpeg"
    /\ trace' = Append(trace, "save_image_as_jpeg")
    /\ LET unique_output_path == generate_image_filename(folder, i)
       IN  \/ \* fopen fails: handle_error frees the buffer and exits
              /\ image_buffer' = NULL
              /\ Exit(EXIT_FAILURE, <<"Error opening output file">>)
              /\ UNCHANGED <<i, files, partial>>
           \/ \* the encoder fails after the file was opened
              /\ partial' = partial \cup {unique_output_path}
              /\ Exit(EXIT_FAILURE, <<"libjpeg error">>)
              /\ UNCHANGED <<i, files, image_buffer>>
           \/ /\ size > 0
              /\ files' = files \cup {unique_output_path}
              /\ image_buffer' = NULL
              /\ i' = i + 1
              /\ Continue(LoopNext(i + 1))
              /\ UNCHANGED partial
    /\ UNCHANGED <<argv, clock, args, palette, folder, datetime_str,
                   fs_folders, allocs, tag_calls, usage>>

\* faulty variant: a failed tagging call removes the images and is retried
AddExifDatetimeBatch_rollback ==
    /\ pc = "add_exif_datetime_batch"
    /\ trace' = Append(trace, "add_exif_datetime_batch")
    /\ \/ /\ tag_calls' = Append(Append(tag_calls, <<folder, datetime_str>>),
                                 <<folder, datetime_str>>)
          /\ files' = {}
          /\ Exit(EXIT_FAILURE, <<"exiftool is not available or failed to execute">>)
       \/ /\ tag_calls' = Append(tag_calls, <<folder, datetime_str>>)
          /\ files' = files
          /\ Exit(EXIT_SUCCESS, <<>>)
    /\ UNCHANGED <<argv, clock, args, palette, folder, datetime_str, i,
                   image_buffer, fs_folders, partial, allocs, usage>>

\* system("exiftool ... 'folder'/*.jpg"); then the end of main()
AddExifDatetimeBatch ==
    /\ pc = "add_exif_datetime_batch"
    /\ trace' = Append(trace, "add_exif_datetime_batch")
    /\ tag_calls' = Append(tag_calls, <<folder, datetime_str>>)
    /\ \/ Exit(EXIT_FAILURE, <<"exiftool is not available or failed to execute">>)
       \/ Exit(EXIT_SUCCESS, <<>>)
    /\ UNCHANGED <<argv, clock, args, palette, folder, datetime_str, i,
                   image_buffer, disk, allocs, usage>>

Next ==
    \/ Tick
    \/ HandleHelpOption
    \/ ParseArguments
    \/ ParseColors
    \/ CreateOutputFolder
    \/ ResolveDatetime
    \/ CheckDivisible
    \/ CreateFolderIfNotExists
    \/ AllocateImageBuffer
    \/ FillImageWithColors
    \/ SaveImageAsJpeg
    \/ AddExifDatetimeBatch

Spec == Init /\ [][Next]_vars

(***************************************************************************)
(* Vocabulary of the properties, stated without the parsing code.          *)
(***************************************************************************)
Called(f) == \E k \in 1..Len(trace) : trace[k] = f

Exited == pc = "exited"

ExitedWith(status) == pc = "exited" /\ exit_status = <<status>>

\* parse_arguments has run
ArgsParsed == Called("parse_arguments")

\* the number a decimal digit character stands for
DecValue(c) == CHOOSE v \in 0..9 : DecDigits[v + 1] = c

\* the number a hexadecimal digit character stands for
HexValue(c) ==
    CHOOSE v \in 0..15 : HexDigits[v + 1] = c \/ (v >= 10 /\ HexLower[v - 9] = c)

\* YYYYMMDD: 8 decimal digits, year 1900..2100, month 1..12, day 1..31
IsDateToken(s) ==
    /\ Len(s) = 8
    /\ \A k \in 1..8 : s[k] \in {"0", "1", "2", "3", "4", "5", "6", "7", "8", "9"}
    /\ LET year  == 1000 * DecValue(s[1]) + 100 * DecValue(s[2])
                      + 10 * DecValue(s[3]) + DecValue(s[4])
           month == 10 * DecValue(s[5]) + DecValue(s[6])
           day   == 10 * DecValue(s[7]) + DecValue(s[8])
       IN  year \in 1900..2100 /\ month \in 1..12 /\ day \in 1..31

\* 'YYYY:MM:DD 12:00:00' of the token YYYYMMDD
NoonOf(s) ==
    <<s[1], s[2], s[3], s[4], ":", s[5], s[6], ":", s[7], s[8], " ",
      "1", "2", ":", "0", "0", ":", "0", "0">>

\* '#' followed by exactly 6 hexadecimal digits
IsHexColor(s) ==
    /\ Len(s) = 7
    /\ s[1] = "#"
    /\ \A k \in 2..7 : s[k] \in {"0", "1", "2", "3", "4", "5", "6", "7", "8", "9",
                                 "A", "B", "C", "D", "E", "F",
                                 "a", "b", "c", "d", "e", "f"}

\* the Color of a well-formed #RRGGBB token
ColorOf(s) ==
    <<16 * HexValue(s[2]) + HexValue(s[3]),
      16 * HexValue(s[4]) + HexValue(s[5]),
      16 * HexValue(s[6]) + HexValue(s[7])>>

\* the argument in the optional date position is absent, or is a string of
\* decimal digits (as the examples 2024011 and 20241301) that is not a date
DateSlotAbsentOrInvalid ==
    \/ argc <= 6
    \/ /\ ~IsDateToken(argv[6])
       /\ \A k \in 1..Len(argv[6]) :
            argv[6][k] \in {"0", "1", "2", "3", "4", "5", "6", "7", "8", "9"}

\* the arguments taken as colours, given where they start
TrailingTokens(start) == SubSeq(argv, start, argc - 1)

\* a is not an exact multiple of b
NotMultiple(a, b) ==
    LET abs(v) == IF v < 0 THEN 0 - v ELSE v
    IN  ~\E k \in (0 - abs(a))..abs(a) : a = k * b

\* the paths bloated_image_1.jpg .. bloated_image_<n>.jpg in the run's folder
ImagePaths(n) == {generate_image_filename(folder, k) : k \in 1..n}

\* bytes of the pixel at row r, column c of a size x size buffer
PixelAt(mem, side, r, c) ==
    LET index == (r * side + c) * 3
    IN  <<mem[index], mem[index + 1], mem[index + 2]>>

(***************************************************************************)
(* Properties                                                              *)
(***************************************************************************)
\* C1: when the argument in the optional date position is absent or is not
\* a valid date, the run is not aborted on its account: it is not taken as
\* a date, no fatal error names it, and the timestamp handed to the
\* tagging tool is the current local time.
C1_InvalidDateFallsBack ==
    (ArgsParsed /\ DateSlotAbsentOrInvalid) =>
        /\ has_custom_date = 0
        /\ ~(Exited /\ argc > 6 /\ Len(err) = 2 /\ err[2] = argv[6])
        /\ datetime_str /= NULL =>
             \E k \in 1..Len(NowTimes) : datetime_str = FormatDatetime(NowTimes[k])

\* C2: a run whose side_length is not an exact multiple of block_size never
\* allocates a pixel buffer, creates a folder or writes an image file, and
\* when it has ended its exit status is nonzero.  (Stated for block_size
\* other than 0, where the remainder the program computes is defined.)
C2_NonDivisibleRejected ==
    (ArgsParsed /\ block_size /= 0 /\ NotMultiple(size, block_size)) =>
        /\ allocs = 0
        /\ fs_folders = {}
        /\ files = {} /\ partial = {}
        /\ Exited => exit_status /= <<EXIT_SUCCESS>>

\* C3: the tagging tool is invoked at most once; when it has been invoked
\* the images 1..count are all written, and no image is written after it.
C3_TagOnceAfterAllImages ==
    /\ [](/\ Len(tag_calls) <= 1
          /\ tag_calls /= <<>> =>
               \A k \in 1..num_images : generate_image_filename(folder, k) \in files)
    /\ [][tag_calls /= <<>> => (files' = files /\ partial' = partial)]_vars

\* a run of two images that was tagged and ended with status 0
C3_Witness ==
    ExitedWith(EXIT_SUCCESS) /\ Len(tag_calls) = 1 /\ num_images = 2
      /\ Cardinality(files) = 2

\* the tagging step has failed
TagFailed == Len(err) = 1 /\ err[1] = "exiftool is not available or failed to execute"

\* C4: when the tagging step fails the run ends with a nonzero exit status,
\* the tool was called once (no retry), and the failing step leaves the
\* files and folders on disk as they were (all count images still there).
C4_TagFailureKeepsFiles ==
    /\ [](TagFailed => /\ Exited /\ exit_status /= <<EXIT_SUCCESS>>
                       /\ Len(tag_calls) = 1
                       /\ ImagePaths(num_images) \subseteq files)
    /\ [][TagFailed' /\ ~TagFailed => disk' = disk]_vars

\* the tagging of a two-image batch failed
C4_Witness == TagFailed /\ num_images = 2 /\ Cardinality(files) = 2

\* C5: a run that ends with exit status 0 without printing the usage has
\* written exactly count files, and they are bloated_image_1.jpg ..
\* bloated_image_<count>.jpg in the folder named at the start of the run.
C5_SuccessWritesCountFiles ==
    (ExitedWith(EXIT_SUCCESS) /\ ~usage) =>
        /\ Cardinality(files) = num_images
        /\ files = ImagePaths(num_images)
        /\ \E k \in 1..Len(NowTimes) : folder = FormatFolder(NowTimes[k])

\* C6: a run with a trailing colour token that is not '#' followed by
\* exactly 6 hexadecimal digits stops in parse_colors with a nonzero exit
\* status and never generates an image.
C6_MalformedColorRejected ==
    (Called("parse_colors")
       /\ \E k \in 1..Len(TrailingTokens(IF has_custom_date = 1 THEN 7 ELSE 6)) :
            ~IsHexColor(TrailingTokens(IF has_custom_date = 1 THEN 7 ELSE 6)[k])) =>
        /\ Exited /\ exit_status /= <<EXIT_SUCCESS>>
        /\ ~Called("create_output_folder")
        /\ allocs = 0 /\ files = {} /\ partial = {}

\* the buffer has just been filled by fill_image_with_colors
Filled == pc = "save_image_as_jpeg"

\* C7: after fill_image_with_colors on a buffer whose side is a positive
\* multiple of a positive block_size, every block-aligned block holds one
\* RGB value in all its block_size x block_size pixels, a palette colour.
C7_BlocksUniform ==
    (Filled /\ size > 0 /\ block_size > 0 /\ ~NotMultiple(size, block_size)) =>
        \A by \in 0..((size \div block_size) - 1) :
          \A bx \in 0..((size \div block_size) - 1) :
            \E c \in 1..Len(color_list) :
              \A r \in 0..(block_size - 1) : \A q \in 0..(block_size - 1) :
                PixelAt(image_buffer.mem, size, by * block_size + r,
                        bx * block_size + q) = color_list[c]

\* a 4 x 4 buffer filled in 2 x 2 blocks of which two differ in colour
C7_Witness ==
    /\ Filled /\ size = 4 /\ block_size = 2
    /\ PixelAt(image_buffer.mem, size, 0, 0) /= PixelAt(image_buffer.mem, size, 2, 2)
    /\ PixelAt(image_buffer.mem, size, 3, 3) = <<26, 43, 60>>

\* C8: the token in the date position is accepted exactly when it is 8
\* decimal digits with year 1900..2100, month 1..12 and day 1..31, and an
\* accepted token YYYYMMDD gives the timestamp 'YYYY:MM:DD 12:00:00'.
C8_DateAcceptance ==
    (ArgsParsed /\ argc > 6) =>
        /\ validate_and_parse_custom_date(argv[6]).ok = 1 <=> IsDateToken(argv[6])
        /\ has_custom_date = 1 <=> IsDateToken(argv[6])
        /\ (has_custom_date = 1 /\ Called("resolve_datetime")) =>
             datetime_str = NoonOf(argv[6])

\* the token 20240101 was accepted and became 2024:01:01 12:00:00
C8_Witness ==
    /\ has_custom_date = 1
    /\ argv[6] = <<"2", "0", "2", "4", "0", "1", "0", "1">>
    /\ datetime_str = <<"2", "0", "2", "4", ":", "0", "1", ":", "0", "1", " ",
                        "1", "2", ":", "0", "0", ":", "0", "0">>

\* parse_colors has returned
PaletteResolved == Called("create_output_folder")

\* C9: the resolved palette has length >= 1; with no colour tokens after
\* the positional arguments (and the accepted date) it is [black, white],
\* otherwise it holds one Color per trailing token, in argument order,
\* starting after the date when one was accepted and after output_path
\* when not.
C9_PaletteResolution ==
    PaletteResolved =>
        LET toks == TrailingTokens(IF has_custom_date = 1 THEN 7 ELSE 6)
        IN  /\ num_colors = Len(color_list)
            /\ Len(color_list) >= 1
            /\ toks = <<>> => color_list = << <<0, 0, 0>>, <<255, 255, 255>> >>
            /\ toks /= <<>> =>
                 /\ Len(color_list) = Len(toks)
                 /\ \A k \in 1..Len(toks) :
                      IsHexColor(toks[k]) => color_list[k] = ColorOf(toks[k])

\* an accepted date followed by the single colour #1A2B3C
C9_Witness ==
    PaletteResolved /\ has_custom_date = 1 /\ argc = 8
      /\ color_list = << <<26, 43, 60>> >>

\* C10: when the first argument is -h or --help the run prints the usage and
\* exits with status 0 having called nothing else: no argument parsed, no
\* folder, no buffer, no image, no tagging call.
C10_HelpShortCircuits ==
    (argv[1] \in {HelpShort, HelpLong} /\ pc /= "handle_help_option") =>
        /\ ExitedWith(EXIT_SUCCESS)
        /\ usage
        /\ trace = <<"handle_help_option">>
        /\ num_images = 0 /\ size = 0 /\ block_size = 0 /\ has_custom_date = 0
        /\ color_list = NULL /\ folder = NULL
        /\ fs_folders = {} /\ allocs = 0 /\ image_buffer = NULL
        /\ files = {} /\ partial = {}
        /\ tag_calls = <<>>

\* -h followed by a full command line has ended with the usage
C10_Witness ==
    ExitedWith(EXIT_SUCCESS) /\ usage /\ argv[1] = HelpShort /\ Len(argv) > 5

\* how many times main() or generate_bloated_jpeg has called f
Calls(f) == Cardinality({k \in 1..Len(trace) : trace[k] = f})

\* The stages of a run, numbered in the order ParseArgs (1), CreateFolder
\* (2), GenerateLoop (3), TagBatch (4); folderStage is the stage the call
\* of create_folder_if_not_exists is counted in.
StageRank(f, folderStage) ==
    CASE f \in {"handle_help_option", "parse_arguments", "parse_colors"} -> 1
      [] f \in {"create_output_folder", "resolve_datetime"} -> 2
      [] f = "create_folder_if_not_exists" -> folderStage
      [] f \in {"generate_bloated_jpeg", "allocate_image_buffer",
                "fill_image_with_colors", "save_image_as_jpeg"} -> 3
      [] f = "add_exif_datetime_batch" -> 4

\* no call belongs to an earlier stage than the call before it
InStageOrder(folderStage) ==
    \A k \in 1..(Len(trace) - 1) :
      StageRank(trace[k], folderStage) <= StageRank(trace[k + 1], folderStage)

\* the run has ended in Help, in Error or in Success
EndedInHelpErrorOrSuccess ==
    \/ ExitedWith(EXIT_SUCCESS) /\ usage /\ trace = <<"handle_help_option">>
    \/ Exited /\ exit_status /= <<EXIT_SUCCESS>>
    \/ ExitedWith(EXIT_SUCCESS) /\ ~usage
         /\ trace[Len(trace)] = "add_exif_datetime_batch"

\* C11: a run passes through its stages only in the order ParseArgs,
\* CreateFolder, GenerateLoop(1..count), TagBatch and ends in Help, Error
\* or Success; no stage is entered again once left: the folder is created
\* (create_folder_if_not_exists) once, in the CreateFolder stage before the
\* generation loop, and not again during the loop.  (Stated for runs whose
\* count, side_length and block_size are positive and whose side_length is
\* a multiple of block_size.)
C11_FolderCreatedOnceBeforeLoop ==
    (ArgsParsed /\ num_images > 0 /\ size > 0 /\ block_size > 0
       /\ ~NotMultiple(size, block_size)) =>
        /\ InStageOrder(2)
        /\ Calls("create_folder_if_not_exists") <= 1
        /\ Exited => EndedInHelpErrorOrSuccess

\* C11, amended: the stages follow each other in the order ParseArgs,
\* folder naming (create_output_folder), GenerateLoop(1..count), TagBatch
\* and none is entered again, each function outside the loop is called at
\* most once, the iterations run in the order 1..count, and a run that has
\* ended ended in Help, Error or Success; create_folder_if_not_exists
\* belongs to the loop: it is called at most once in every iteration, after
\* that iteration's call of generate_bloated_jpeg.
C11_StagesInOrderFolderInLoop ==
    /\ InStageOrder(3)
    /\ \A f \in {"handle_help_option", "parse_arguments", "parse_colors",
                 "create_output_folder", "resolve_datetime",
                 "add_exif_datetime_batch"} : Calls(f) <= 1
    /\ Calls("generate_bloated_jpeg") \in {i - 1, i}
    /\ Calls("generate_bloated_jpeg") <= (IF num_images > 0 THEN num_images ELSE 0)
    /\ Calls("create_folder_if_not_exists") \in
         {Calls("generate_bloated_jpeg") - 1, Calls("generate_bloated_jpeg")}
    /\ \A f \in {"allocate_image_buffer", "fill_image_with_colors",
                 "save_image_as_jpeg"} :
         Calls(f) <= Calls("create_folder_if_not_exists")
    /\ Exited => EndedInHelpErrorOrSuccess

\* a run of two images has ended in Success; create_folder_if_not_exists
\* was called in both iterations
C11_Witness ==
    /\ ExitedWith(EXIT_SUCCESS) /\ num_images = 2
    /\ Calls("create_output_folder") = 1
    /\ Calls("create_folder_if_not_exists") = 2
    /\ Calls("save_image_as_jpeg") = 2

\* a pixel buffer is allocated and not yet freed
BufferLive == image_buffer /= NULL

\* C12: at most one pixel buffer is live at any time (none is live when the
\* next is allocated), and the buffer of image i is released before
\* iteration i ends: it is live only between its allocation and the end of
\* save_image_as_jpeg, and it is not live when the process has exited,
\* whether the iteration succeeded, the output file could not be opened or
\* the encoder failed.
C12_BufferReleasedInIteration ==
    /\ pc = "allocate_image_buffer" => ~BufferLive
    /\ pc \in {"generate_bloated_jpeg", "add_exif_datetime_batch"} => ~BufferLive
    /\ Exited => ~BufferLive

\* how many times the pixel whose first byte is at index was written
Writes(log, index) == Cardinality({k \in 1..Len(log) : log[k] = index})

\* C13: for every pair (size, block_size) that passes the divisibility
\* check of generate_bloated_jpeg, fill_image_with_colors writes each of
\* the size * size pixels exactly once and writes no byte at an index
\* outside [0, size * size * 3).  (Stated when the call has returned, for
\* block_size other than 0, where the remainder the check computes is
\* defined.)
C13_FillWritesEveryPixelOnce ==
    (Filled /\ block_size /= 0 /\ ~NotMultiple(size, block_size)) =>
        /\ \A p \in 0..(size * size - 1) : Writes(image_buffer.log, 3 * p) = 1
        /\ \A k \in 1..Len(image_buffer.log) :
             /\ image_buffer.log[k] >= 0
             /\ image_buffer.log[k] + 2 < size * size * 3

====
